---- MODULE Spec2Model ----
(***************************************************************************)
(* Model of the firmware import pipeline of apple-system-symbols-upload:   *)
(* release discovery (get_missing_ipsws, get_missing_ota_only_releases),   *)
(* the two orchestrators (main_download_ipsws, main_download_otas), the    *)
(* archive extraction (extract_symbols_from_one_ipsw_archive,              *)
(* process_one_dmg, extract_symbols_from_one_ota_archive) and the publish  *)
(* step (upload_to_gcs).                                                   *)
(*                                                                         *)
(* Python strings are TLA+ strings; a version, a bundle id, a URL, a file  *)
(* name is the string the program builds, and startswith, slicing,         *)
(* basename, splitext and version.parse are computed on its characters.    *)
(***************************************************************************)
EXTENDS Integers, Sequences, FiniteSets, TLC

\* ------------------------------------------------------------------------
\* Bounds of the model
\* ------------------------------------------------------------------------
\* devices of one OS family that are queried (a prefix of the static list)
MaxDevices == 2
\* entries of the incremental-update listings of one catalog, all devices
\* together
MaxFirmwares == 3
\* system images listed by one legacy restore manifest
MaxImages == 2

\* ------------------------------------------------------------------------
\* Strings
\* ------------------------------------------------------------------------
Min(a, b) == IF a <= b THEN a ELSE b

\* str.startswith
StartsWith(s, p) == Len(s) >= Len(p) /\ SubSeq(s, 1, Len(p)) = p

\* `p in s` for strings
Contains(s, p) == \E i \in 1..(Len(s) - Len(p) + 1) : SubSeq(s, i, i + Len(p) - 1) = p

\* s[i:] with a 0-based start, as Python slices
SliceFrom(s, i) == SubSeq(s, i + 1, Len(s))

\* str.rfind, 1-based, 0 when absent; the search starts at position i
RECURSIVE RFind(_, _, _)
RFind(s, c, i) ==
    IF i = 0 THEN 0
    ELSE IF SubSeq(s, i, i) = c THEN i
    ELSE RFind(s, c, i - 1)

\* os.path.basename
Basename(p) == SubSeq(p, RFind(p, "/", Len(p)) + 1, Len(p))

\* os.path.splitext(p)[1]: the last dot of the last component starts the
\* extension unless only dots precede it in that component
Splitext1(p) ==
    LET sep == RFind(p, "/", Len(p))
        dot == RFind(p, ".", Len(p))
    IN  IF dot > sep /\ (\E k \in (sep + 1)..(dot - 1) : SubSeq(p, k, k) # ".")
        THEN SubSeq(p, dot, Len(p))
        ELSE ""

\* pathlib.PurePath.suffix
PathSuffix(p) ==
    LET name == Basename(p)
        i == RFind(name, ".", Len(name))
    IN  IF 1 < i /\ i < Len(name) THEN SubSeq(name, i, Len(name)) ELSE ""

\* pathlib.PurePath.with_suffix("")
WithSuffixEmpty(p) == SubSeq(p, 1, Len(p) - Len(PathSuffix(p)))

DigitValue(c) ==
    CASE c = "0" -> 0 [] c = "1" -> 1 [] c = "2" -> 2 [] c = "3" -> 3
      [] c = "4" -> 4 [] c = "5" -> 5 [] c = "6" -> 6 [] c = "7" -> 7
      [] c = "8" -> 8 [] c = "9" -> 9

\* int(s) of a string of decimal digits
RECURSIVE ParseInt(_)
ParseInt(s) ==
    IF Len(s) = 0 THEN 0
    ELSE 10 * ParseInt(SubSeq(s, 1, Len(s) - 1)) + DigitValue(SubSeq(s, Len(s), Len(s)))

\* s.split(".") with every part converted by int
RECURSIVE SplitInts(_)
SplitInts(s) ==
    LET dot == RFind(s, ".", Len(s))
    IN  IF dot = 0 THEN <<ParseInt(s)>>
        ELSE Append(SplitInts(SubSeq(s, 1, dot - 1)), ParseInt(SubSeq(s, dot + 1, Len(s))))

\* ------------------------------------------------------------------------
\* packaging.version: a release is compared as its tuple of numbers with the
\* trailing zeros removed
\* ------------------------------------------------------------------------
RECURSIVE StripTrailingZeros(_)
StripTrailingZeros(t) ==
    IF Len(t) > 0 /\ t[Len(t)] = 0 THEN StripTrailingZeros(SubSeq(t, 1, Len(t) - 1)) ELSE t

version_parse(s) == StripTrailingZeros(SplitInts(s))

\* tuple comparison a < b, as Python compares tuples
RECURSIVE TupleLess(_, _)
TupleLess(a, b) ==
    IF Len(b) = 0 THEN FALSE
    ELSE IF Len(a) = 0 THEN TRUE
    ELSE IF a[1] # b[1] THEN a[1] < b[1]
    ELSE TupleLess(Tail(a), Tail(b))

\* VersionGE with a strict comparison
VersionGT(a, b) == TupleLess(b, a)

\* parsed_version >= version.parse(...)
VersionGE(a, b) == ~TupleLess(a, b)

\* parse_date: strptime with "%Y-%m-%dT%H:%M:%SZ"
parse_date(d) ==
    << ParseInt(SubSeq(d, 1, 4)), ParseInt(SubSeq(d, 6, 7)), ParseInt(SubSeq(d, 9, 10)),
       ParseInt(SubSeq(d, 12, 13)), ParseInt(SubSeq(d, 15, 16)), ParseInt(SubSeq(d, 18, 19)) >>

\* ------------------------------------------------------------------------
\* Static configuration and release descriptors
\* ------------------------------------------------------------------------
Device(identifier, architecture) == [identifier |-> identifier, architecture |-> architecture]

DEVICES_TO_CHECK ==
    [ ios |-> << Device("iPhone14,2", "arm64e"), Device("iPhone10,6", "arm64"),
                 Device("iPhone8,1", "arm64"), Device("iPad12,1", "arm64e"),
                 Device("iPad5,4", "arm64") >>,
      tvos |-> << Device("AppleTV5,3", "arm64"), Device("AppleTV6,2", "arm64") >>,
      macos |-> << Device("MacBookPro18,3", "arm64e"), Device("MacBookAir10,1", "arm64e") >>,
      watchos |-> << Device("Watch5,4", "arm64e"), Device("Watch4,3", "arm64e"),
                     Device("Watch3,4", "arm64e") >> ]

\* DEVICES_TO_CHECK.get(os_name, []), cut to the devices the model queries
DevicesOf(os_name) ==
    IF os_name \in DOMAIN DEVICES_TO_CHECK
    THEN SubSeq(DEVICES_TO_CHECK[os_name], 1, Min(MaxDevices, Len(DEVICES_TO_CHECK[os_name])))
    ELSE << >>

\* IpswBundleId without the architecture
IpswBundleIdOfBuild(os_version, build_number, architecture) ==
    os_version \o "_" \o build_number

\* IPSW.bundle_id, and the same format in process_one_dmg
IpswBundleId(os_version, build_number, architecture) ==
    os_version \o "_" \o build_number \o "_" \o architecture

\* IPSW.unique_id, the key of __eq__ and __hash__
IpswUniqueId(i) ==
    i.os_name \o "-" \o i.os_version \o "-" \o i.build_number \o "-" \o i.architecture

\* OTA.bundle_id
OtaBundleId(o) ==
    o.device_identifier \o "_" \o o.os_version \o "_" \o o.build_number \o "_ota"

\* regular_version_from_ota_version
regular_version_from_ota_version(ota_version) ==
    IF StartsWith(ota_version, "9.9.") THEN SliceFrom(ota_version, 4) ELSE ota_version

\* ------------------------------------------------------------------------
\* Artifact store
\* ------------------------------------------------------------------------
StoragePath(prefix, bundle_id) ==
    "gs://sentryio-system-symbols-0/" \o prefix \o "/bundles/" \o bundle_id

\* `gcloud storage objects describe`: exit status and output for an object,
\* given the objects of the bucket and whether the store answers at all
DescribeObject(objects, reachable, storage_path) ==
    IF ~reachable
    THEN [returncode |-> 1, stdout |-> "ERROR: (gcloud.storage.objects.describe) unavailable"]
    ELSE IF storage_path \in objects
    THEN [returncode |-> 0, stdout |-> "bucket: sentryio-system-symbols-0"]
    ELSE [returncode |-> 1, stdout |-> "ERROR: (gcloud.storage.objects.describe) not found: 404."]

\* what has_symbols_in_cloud_storage makes of the completed process:
\* "true", "false", or "raise" for the CalledProcessError of check_returncode
GateOutcome(result) ==
    IF result.returncode = 0 THEN "true"
    ELSE IF Contains(result.stdout, "not found") THEN "false"
    ELSE "raise"

has_symbols_in_cloud_storage(objects, reachable, prefix, bundle_id) ==
    GateOutcome(DescribeObject(objects, reachable, StoragePath(prefix, bundle_id)))

\* ------------------------------------------------------------------------
\* Python dict, in insertion order: a sequence of [key, value]
\* ------------------------------------------------------------------------
DictHas(d, k) == \E i \in 1..Len(d) : d[i].key = k

DictGet(d, k) == d[CHOOSE i \in 1..Len(d) : d[i].key = k].value

\* d[k] = v: an existing key keeps its position
DictPut(d, k, v) ==
    IF DictHas(d, k)
    THEN [i \in 1..Len(d) |-> IF d[i].key = k THEN [key |-> k, value |-> v] ELSE d[i]]
    ELSE Append(d, [key |-> k, value |-> v])

\* d.pop(k, None)
DictPop(d, k) == SelectSeq(d, LAMBDA e : e.key # k)

\* list(d.values())
RECURSIVE DictValues(_)
DictValues(d) == IF d = << >> THEN << >> ELSE << d[1].value >> \o DictValues(Tail(d))

RECURSIVE Concat(_)
Concat(ss) == IF ss = << >> THEN << >> ELSE ss[1] \o Concat(Tail(ss))

\* ------------------------------------------------------------------------
\* get_missing_ota_only_releases
\* ------------------------------------------------------------------------
\* Qualifies without the two prerequisite tests
QualifiesWithPrerequisite(x) == x.releasetype # "Beta"

\* ResponseRaises for a raise_for_status that accepts every status
ResponseNeverRaises(res) == FALSE

\* res.raise_for_status() raises
ResponseRaises(res) == ~res.ok

\* the filter of qualifying_firmwares
Qualifies(x) ==
    /\ x.releasetype # "Beta"
    /\ x.prerequisitebuildid = ""
    /\ x.prerequisiteversion = ""

\* sorted(..., key=parse_date(releasedate)): stable, ascending
RECURSIVE InsertByDate(_, _)
InsertByDate(sorted, x) ==
    IF sorted = << >> THEN << x >>
    ELSE IF TupleLess(parse_date(x.releasedate), parse_date(sorted[Len(sorted)].releasedate))
    THEN Append(InsertByDate(SubSeq(sorted, 1, Len(sorted) - 1), x), sorted[Len(sorted)])
    ELSE Append(sorted, x)

RECURSIVE SortByDate(_)
SortByDate(xs) ==
    IF xs = << >> THEN << >>
    ELSE InsertByDate(SortByDate(SubSeq(xs, 1, Len(xs) - 1)), xs[Len(xs)])

\* SelectFirmwares resolving "latest" to the version of the first entry
SelectFirmwaresOldest(version, qualifying_firmwares) ==
    IF version = "all" THEN qualifying_firmwares
    ELSE LET actual_version ==
                 IF version = "latest" THEN qualifying_firmwares[1].version ELSE version
         IN  SelectSeq(qualifying_firmwares, LAMBDA x : x.version = actual_version)

\* the firmwares of one device that the version selector keeps
SelectFirmwares(version, qualifying_firmwares) ==
    IF version = "all" THEN qualifying_firmwares
    ELSE LET actual_version ==
                 IF version = "latest"
                 THEN qualifying_firmwares[Len(qualifying_firmwares)].version
                 ELSE version
         IN  SelectSeq(qualifying_firmwares, LAMBDA x : x.version = actual_version)

\* the key under which an incremental update is filed
OtaKey(firmware) == << regular_version_from_ota_version(firmware.version), firmware.buildid >>

\* the key a full image of the diffing listing removes
IpswPopKey(firmware) == << firmware.version, firmware.buildid >>

\* versions.setdefault(key, {})[firmware["url"]] = firmware, for each firmware
RECURSIVE AddFirmwares(_, _)
AddFirmwares(versions, firmwares) ==
    IF firmwares = << >> THEN versions
    ELSE LET firmware == firmwares[1]
             key == OtaKey(firmware)
             inner == IF DictHas(versions, key) THEN DictGet(versions, key) ELSE << >>
         IN  AddFirmwares(DictPut(versions, key, DictPut(inner, firmware.url, firmware)),
                          Tail(firmwares))

\* versions.pop(...) for each firmware of the full-image listing
PopListed(versions, listed) ==
    SelectSeq(versions, LAMBDA e : ~(\E firmware \in listed : IpswPopKey(firmware) = e.key))

\* the loop over the devices; ota[i] and ipsw[i] are the catalog's answers to
\* the two requests for device i
RECURSIVE OtaScanDevices(_, _, _, _, _, _)
OtaScanDevices(n, i, version, ota, ipsw, versions) ==
    IF i > n THEN [raised |-> FALSE, versions |-> versions]
    ELSE IF ResponseRaises(ota[i]) THEN [raised |-> TRUE, versions |-> versions]
    ELSE LET qualifying_firmwares == SortByDate(SelectSeq(ota[i].firmwares, Qualifies))
         IN  IF qualifying_firmwares = << >>
             THEN OtaScanDevices(n, i + 1, version, ota, ipsw, versions)
             ELSE LET added == AddFirmwares(versions,
                                            SelectFirmwares(version, qualifying_firmwares))
                  IN  IF ResponseRaises(ipsw[i]) THEN [raised |-> TRUE, versions |-> added]
                      ELSE OtaScanDevices(n, i + 1, version, ota, ipsw,
                                          PopListed(added, ipsw[i].firmwares))

\* OTA(...) built from one catalog entry
OtaOf(os_name, info) ==
    [ os_name |-> os_name, device_identifier |-> info.identifier,
      build_number |-> info.buildid, os_version |-> info.version, url |-> info.url ]

\* the releases that reach the existence gate, in the order of the two loops
OtaCandidates(os_name, versions) ==
    LET infos == Concat([i \in 1..Len(versions) |-> DictValues(versions[i].value)])
    IN  [i \in 1..Len(infos) |-> OtaOf(os_name, infos[i])]

\* OtaGate asking for the bundle of the normalised version
OtaGateNormalised(objects, reachable, ota) ==
    has_symbols_in_cloud_storage(objects, reachable, ota.os_name,
        OtaBundleId([ota EXCEPT !.os_version = regular_version_from_ota_version(@)]))

\* the gate's answer for an incremental update
OtaGate(objects, reachable, ota) ==
    has_symbols_in_cloud_storage(objects, reachable, ota.os_name, OtaBundleId(ota))

\* OtaMissing without the gate
OtaMissingUnfiltered(objects, reachable, candidates) == candidates

\* rv: the candidates the gate reports missing
OtaMissing(objects, reachable, candidates) ==
    SelectSeq(candidates, LAMBDA ota : OtaGate(objects, reachable, ota) # "true")

get_missing_ota_only_releases(os_name, version, ota, ipsw, objects, reachable) ==
    LET scan == OtaScanDevices(Len(DevicesOf(os_name)), 1, version, ota, ipsw, << >>)
        candidates == OtaCandidates(os_name, scan.versions)
    IN  IF scan.raised
           \/ \E i \in 1..Len(candidates) : OtaGate(objects, reachable, candidates[i]) = "raise"
        THEN [raised |-> TRUE, rv |-> << >>]
        ELSE [raised |-> FALSE, rv |-> OtaMissing(objects, reachable, candidates)]

\* the calls of the gate made by get_missing_ota_only_releases, with the
\* answer of each
OtaAsked(os_name, version, ota, ipsw, objects, reachable) ==
    LET scan == OtaScanDevices(Len(DevicesOf(os_name)), 1, version, ota, ipsw, << >>)
        candidates == OtaCandidates(os_name, scan.versions)
    IN  IF scan.raised THEN {}
        ELSE { [bundle_id |-> OtaBundleId(candidates[i]),
                answer |-> OtaGate(objects, reachable, candidates[i])] :
                 i \in 1..Len(candidates) }

\* ------------------------------------------------------------------------
\* get_missing_ipsws
\* ------------------------------------------------------------------------
\* IPSW(...) built from the first entry of a device's answer
IpswOf(os_name, device, ipsw_info) ==
    [ architecture |-> device.architecture, archive_name |-> Basename(ipsw_info.url),
      build_number |-> ipsw_info.buildid, os_name |-> os_name,
      os_version |-> ipsw_info.version ]

IpswGate(objects, reachable, i) ==
    has_symbols_in_cloud_storage(objects, reachable, i.os_name,
                                 IpswBundleId(i.os_version, i.build_number, i.architecture))

\* set.add under IPSW.__eq__: an equal member is kept as it is
SetAddIpsw(s, i) == IF \E e \in s : IpswUniqueId(e) = IpswUniqueId(i) THEN s ELSE s \cup {i}

\* AddIpsw keeping one entry for each device's answer
AddIpswPerDevice(url_to_ipsw, url, i) == Append(url_to_ipsw, [key |-> url, value |-> {i}])

\* url_to_ipsw[url].add(ipsw), creating the set on first use
AddIpsw(url_to_ipsw, url, i) ==
    DictPut(url_to_ipsw, url,
            SetAddIpsw(IF DictHas(url_to_ipsw, url) THEN DictGet(url_to_ipsw, url) ELSE {}, i))

RECURSIVE IpswScanDevices(_, _, _, _, _, _)
IpswScanDevices(os_name, i, info, objects, reachable, url_to_ipsw) ==
    IF i > Len(DevicesOf(os_name)) THEN [raised |-> FALSE, url_to_ipsw |-> url_to_ipsw]
    ELSE IF ResponseRaises(info[i]) THEN [raised |-> TRUE, url_to_ipsw |-> << >>]
    ELSE IF Len(info[i].json) = 0
    THEN IpswScanDevices(os_name, i + 1, info, objects, reachable, url_to_ipsw)
    ELSE LET ipsw_info == info[i].json[1]
             found == IpswOf(os_name, DevicesOf(os_name)[i], ipsw_info)
             gate == IpswGate(objects, reachable, found)
         IN  IF gate = "raise" THEN [raised |-> TRUE, url_to_ipsw |-> << >>]
             ELSE IF gate = "true"
             THEN IpswScanDevices(os_name, i + 1, info, objects, reachable, url_to_ipsw)
             ELSE IpswScanDevices(os_name, i + 1, info, objects, reachable,
                                  AddIpsw(url_to_ipsw, ipsw_info.url, found))

get_missing_ipsws(os_name, os_version, info, objects, reachable) ==
    IF os_name \notin DOMAIN DEVICES_TO_CHECK
    THEN [raised |-> FALSE, url_to_ipsw |-> << >>]
    ELSE IpswScanDevices(os_name, 1, info, objects, reachable, << >>)

\* the calls of the gate made by get_missing_ipsws, with the device and the
\* archive each is made for and its answer
IpswAsked(os_name, info, objects, reachable) ==
    { [ device |-> DevicesOf(os_name)[i].identifier, url |-> info[i].json[1].url,
        ipsw |-> IpswOf(os_name, DevicesOf(os_name)[i], info[i].json[1]),
        bundle_id |-> IpswBundleId(info[i].json[1].version, info[i].json[1].buildid,
                                   DevicesOf(os_name)[i].architecture),
        answer |-> IpswGate(objects, reachable,
                            IpswOf(os_name, DevicesOf(os_name)[i], info[i].json[1])) ] :
        i \in { k \in 1..Len(DevicesOf(os_name)) :
                  /\ \A j \in 1..k : info[j].ok
                  /\ Len(info[k].json) > 0 } }

\* The request of OTA discovery that received the non-success response: requests
\* 1..n are the OTA listings of the devices, n+1..2n their IPSW listings, and the
\* IPSW listing of a device is requested only when its OTA listing has an entry
\* that is not a beta and has no prerequisite.  0 when no request received one.
OtaRequestFailed(o, fail_at) ==
    IF fail_at <= Len(o) THEN fail_at
    ELSE IF \E k \in 1..Len(o[fail_at - Len(o)]) :
               /\ o[fail_at - Len(o)][k].releasetype # "Beta"
               /\ o[fail_at - Len(o)][k].prerequisitebuildid = ""
               /\ o[fail_at - Len(o)][k].prerequisiteversion = ""
         THEN fail_at
         ELSE 0

\* The request of IPSW discovery that received the non-success response: the
\* request of a device is made unless the gate raised for an earlier device.
IpswRequestFailed(os_name, i, fail_at, objects, reachable) ==
    IF \A j \in 1..(fail_at - 1) :
          \/ Len(i[j]) = 0
          \/ IpswGate(objects, reachable,
                      IpswOf(os_name, DevicesOf(os_name)[j], i[j][1])) # "raise"
    THEN fail_at
    ELSE 0

\* ------------------------------------------------------------------------
\* The release catalog's answers (inputs)
\* ------------------------------------------------------------------------
Firmware(identifier, version, buildid, url, releasetype, prerequisitebuildid, prerequisiteversion, releasedate) ==
    [ identifier |-> identifier, version |-> version, buildid |-> buildid, url |-> url,
      releasetype |-> releasetype, prerequisitebuildid |-> prerequisitebuildid,
      prerequisiteversion |-> prerequisiteversion, releasedate |-> releasedate ]

\* entries a device's incremental-update listing is drawn from: a plain
\* release, a later release under the "9.9." version prefix whose archive
\* all devices share, a beta, and a delta on top of another build
OtaFirmwarePool(identifier) ==
    { Firmware(identifier, "16.0", "20A362", "https://u/" \o identifier \o "/a.zip",
               "Release", "", "", "2022-09-12T17:00:00Z"),
      Firmware(identifier, "9.9.16.1", "20B82", "https://u/b.zip",
               "Release", "", "", "2022-10-24T17:00:00Z"),
      Firmware(identifier, "16.2", "20C5032e", "https://u/" \o identifier \o "/c.zip",
               "Beta", "", "", "2022-11-01T17:00:00Z"),
      Firmware(identifier, "16.2", "20C65", "https://u/" \o identifier \o "/d.zip",
               "Release", "20B82", "16.1", "2022-12-13T17:00:00Z") }

\* the lists without repetition of at most n members of pool
ListsUpTo(pool, n) ==
    UNION { { l \in [1..k -> pool] : \A i, j \in 1..k : l[i] = l[j] => i = j } : k \in 0..n }

\* entries a device's full-image listing (?type=ipsw) is drawn from
IpswListedPool ==
    { [version |-> "16.0", buildid |-> "20A362"],
      [version |-> "16.1", buildid |-> "20B82"],
      [version |-> "9.9.16.1", buildid |-> "20B82"] }

\* entries a device's info.json answer is drawn from: one build under two
\* archive URLs, and a second build
IpswInfoPool ==
    { [version |-> "16.0", buildid |-> "20A362", url |-> "https://u/A_16.0_20A362_Restore.ipsw"],
      [version |-> "16.0", buildid |-> "20A362", url |-> "https://u/B_16.0_20A362_Restore.ipsw"],
      [version |-> "16.1", buildid |-> "20B82", url |-> "https://u/A_16.1_20B82_Restore.ipsw"] }

\* the sequences with one member of each set of a sequence of sets
RECURSIVE Product(_)
Product(sets) ==
    IF sets = << >> THEN { << >> }
    ELSE { << h >> \o t : h \in sets[1], t \in Product(Tail(sets)) }

\* the catalogs of one OS family: an answer for each device and each request
RECURSIVE TotalLen(_)
TotalLen(ls) == IF ls = << >> THEN 0 ELSE Len(ls[1]) + TotalLen(Tail(ls))

OtaListings(os_name, n) ==
    { c \in Product([i \in 1..Len(DevicesOf(os_name)) |->
                         ListsUpTo(OtaFirmwarePool(DevicesOf(os_name)[i].identifier), n)]) :
        TotalLen(c) <= n }

IpswListings(os_name) ==
    [1..Len(DevicesOf(os_name)) -> { {} } \cup { {e} : e \in IpswListedPool }]

IpswInfos(os_name) ==
    [1..Len(DevicesOf(os_name)) -> {<< >>} \cup { << e >> : e \in IpswInfoPool }]

\* the HTTP answers: raise_for_status fails for request fail_at (0: for none)
Responses(answers, field, fail_at) ==
    [i \in 1..Len(answers) |-> [ok |-> (i # fail_at)] @@ (field :> answers[i])]

\* the version selectors of --os-version
Selectors == {"latest", "all", "16.0"}

\* the objects of the bucket before a run of one kind: nothing, or the
\* bundle of a release the catalogs can report
InitialStores(os_name, kind) ==
    IF DevicesOf(os_name) = << >> THEN { {} }
    ELSE LET d == DevicesOf(os_name)[1]
         IN  IF kind = "ota"
             THEN { {}, { StoragePath(os_name, d.identifier \o "_16.0_20A362_ota") } }
             ELSE { {}, { StoragePath(os_name, IpswBundleId("16.0", "20A362", d.architecture)) } }

\* ------------------------------------------------------------------------
\* State
\* ------------------------------------------------------------------------
VARIABLES
    os_name,        \* --os-name
    os_version,     \* --os-version
    type,           \* --type, the release kinds requested
    upload,         \* not --no-upload
    store,          \* the objects of the bucket
    catalog,        \* the catalog's listings, for the discovery passes
    disc,           \* two discovery passes over one catalog
    pc,             \* the statement main() is at
    otas,           \* incremental updates still to process, the current one first
    url_to_ipsws,   \* archives still to process, the current one first
    ipsws,          \* full images of the current archive still to extract
    release,        \* the release being processed
    ext,            \* locals of the extraction in progress
    tempdirs,       \* temporary directories that exist
    mounted,        \* volumes that are mounted
    output,         \* entries of the shared output root symcache_output
    hist,           \* what the run has done so far
    call            \* one call of a function on its own, with its result

conf == << os_name, os_version, type, upload >>
work == << otas, url_to_ipsws, ipsws, release, ext, tempdirs, mounted, output, hist >>
vars == << os_name, os_version, type, upload, store, catalog, disc, pc, otas, url_to_ipsws,
           ipsws, release, ext, tempdirs, mounted, output, hist, call >>

NoRelease == [os_name |-> ""]

\* no call of a function on its own
NoCall == [fn |-> "none"]

\* locals of an extraction before it starts
NoExtraction ==
    [ os_version |-> "", build_number |-> "", manifest |-> "none", images |-> << >>,
      listed |-> << >>, pending |-> FALSE, detach_failed |-> FALSE, error |-> "none",
      failed_item |-> "",
      image |-> "", volume_path |-> "", bundle_id |-> "", files |-> {},
      dylib_paths |-> << >>, raised |-> FALSE, wrote |-> 0, unpack_failed |-> FALSE ]

\* the record of a run of one kind before it starts
NoHistory ==
    [ kind |-> "none",
      discovered |-> {},        \* the releases discovery returned
      gate_false |-> {},        \* bundle ids the gate reported missing
      gate_true |-> {},         \* bundle ids the gate reported present
      store_seen |-> {},        \* the objects of the bucket at discovery
      http_failed |-> 0,        \* the request of discovery answered with a non-success status
      reported |-> {},          \* (device, url, release) that passed the gate
      downloads |-> << >>,      \* the URLs download_archive was called with
      entered |-> {},           \* releases that reached download or extraction
      started |-> {},           \* releases whose extraction was called
      extracted |-> {},         \* releases whose extraction returned
      written |-> {},           \* their bundle ids, with the version and build read
      failed |-> {},            \* releases whose processing raised
      errors_logged |-> 0,      \* logging.error calls of the orchestrator
      partial |-> {},           \* bundle ids left partly written by a failure
      reached_publish |-> FALSE,    \* control reached `if upload:` after the loop
      output_at_publish |-> {}, \* the entries of the output root at that point
      upload_calls |-> 0,       \* calls of upload_to_gcs
      copies |-> 0,             \* recursive no-clobber copies issued
      published |-> {},         \* bundle ids copied to the bucket
      mount_attempts |-> 0,     \* hdiutil attach issued by the current process_one_dmg
      unmounts |-> 0 ]          \* hdiutil detach issued by the current process_one_dmg

Idle ==
    /\ otas = << >>
    /\ url_to_ipsws = << >>
    /\ ipsws = {}
    /\ release = NoRelease
    /\ ext = NoExtraction
    /\ tempdirs = {}
    /\ mounted = {}
    /\ output = {}
    /\ hist = NoHistory

\* ------------------------------------------------------------------------
\* Two discovery passes over one catalog, the bundles of the first pass
\* being published in between
\* ------------------------------------------------------------------------
DiscoveryFamilies == {"tvos"}

NoCatalog == [ota |-> << >>, ipsw |-> << >>, info |-> << >>]

InitDiscovery ==
    /\ os_name \in DiscoveryFamilies
    /\ os_version \in Selectors
    /\ type \in { {"ota"}, {"ipsw"} }
    /\ upload = TRUE
    /\ \/ /\ type = {"ota"}
          /\ store \in InitialStores(os_name, "ota")
          /\ \E o \in OtaListings(os_name, MaxFirmwares), l \in IpswListings(os_name) :
                 catalog = [ota |-> o, ipsw |-> l, info |-> << >>]
       \/ /\ type = {"ipsw"}
          /\ store \in InitialStores(os_name, "ipsw")
          /\ \E i \in IpswInfos(os_name) : catalog = [ota |-> << >>, ipsw |-> << >>, info |-> i]
    /\ disc = [stage |-> "first", first |-> << >>, second |-> << >>]
    /\ pc = "idle"
    /\ call = NoCall
    /\ Idle

\* one call of the discovery function of the requested kind; the result is
\* the list of the missing releases
Discover(fail_at, reachable) ==
    IF type = {"ota"}
    THEN LET r == get_missing_ota_only_releases(os_name, os_version,
                      Responses(catalog.ota, "firmwares", fail_at),
                      Responses(catalog.ipsw, "firmwares", fail_at - Len(catalog.ota)),
                      store, reachable)
         IN  [raised |-> r.raised, missing |-> r.rv]
    ELSE LET r == get_missing_ipsws(os_name, os_version,
                      Responses(catalog.info, "json", fail_at), store, reachable)
         IN  [raised |-> r.raised,
              missing |-> Concat([i \in 1..Len(r.url_to_ipsw) |->
                              LET u == r.url_to_ipsw[i]
                              IN  [k \in 1..1 |-> [url |-> u.key, ipsws |-> u.value]]])]

\* the object whose presence marks a release as published
BundlePath(r) ==
    IF "device_identifier" \in DOMAIN r
    THEN StoragePath(r.os_name, OtaBundleId(r))
    ELSE StoragePath(r.os_name, IpswBundleId(r.os_version, r.build_number, r.architecture))

\* the releases of a discovery result
ReleasesOf(missing) ==
    IF type = {"ota"} THEN { missing[i] : i \in 1..Len(missing) }
    ELSE UNION { missing[i].ipsws : i \in 1..Len(missing) }

DiscoverFirst ==
    /\ disc.stage = "first"
    /\ \E fail_at \in 0..(2 * Len(DevicesOf(os_name))), reachable \in BOOLEAN :
           LET r == Discover(fail_at, reachable)
           IN  disc' = [disc EXCEPT !.first = r.missing,
                                    !.stage = IF r.raised THEN "raised" ELSE "publish"]
    /\ UNCHANGED << call, conf, store, catalog, pc, work >>

\* bundles of the first pass appear in the bucket
PublishBundles ==
    /\ disc.stage = "publish"
    /\ LET all == { BundlePath(r) : r \in ReleasesOf(disc.first) }
       IN  \E done \in {all} \cup { all \ {b} : b \in all } : store' = store \cup done
    /\ disc' = [disc EXCEPT !.stage = "second"]
    /\ UNCHANGED << call, conf, catalog, pc, work >>

DiscoverAgain ==
    /\ disc.stage = "second"
    /\ \E fail_at \in 0..(2 * Len(DevicesOf(os_name))), reachable \in BOOLEAN :
           LET r == Discover(fail_at, reachable)
           IN  disc' = [disc EXCEPT !.second = r.missing,
                                    !.stage = IF r.raised THEN "raised" ELSE "end"]
    /\ UNCHANGED << call, conf, store, catalog, pc, work >>

NextDiscovery == DiscoverFirst \/ PublishBundles \/ DiscoverAgain

SpecDiscovery == InitDiscovery /\ [][NextDiscovery]_vars

\* ------------------------------------------------------------------------
\* One call of has_symbols_in_cloud_storage on the process result of
\* `gcloud storage objects describe`
\* ------------------------------------------------------------------------
\* values of --os-name: the families of the device list and one without
\* devices
OsNames == {"ios", "tvos", "macos", "watchos", "visionos"}

\* bundle ids the gate is asked about
GateBundleIds ==
    { IpswBundleId("16.0", "20A362", "arm64"),
      OtaBundleId([device_identifier |-> "AppleTV5,3", os_version |-> "16.0",
                   build_number |-> "20A362"]) }

\* the completed processes subprocess.run can return for storage_path, with
\* stderr merged into stdout, each with the condition that produced it: the
\* object is there, the object is not there, the store does not answer,
\* access is denied, the credentials file of the client is missing
DescribeResults(objects, storage_path) ==
    ( IF storage_path \in objects
      THEN { [ returncode |-> 0, condition |-> "found",
               stdout |-> "bucket: sentryio-system-symbols-0" ] }
      ELSE { [ returncode |-> 1, condition |-> "not_found",
               stdout |-> "ERROR: (gcloud.storage.objects.describe) not found: 404." ] } )
    \cup
    { [ returncode |-> 1, condition |-> "unavailable",
        stdout |-> "ERROR: (gcloud.storage.objects.describe) HTTPError 503: unavailable" ],
      [ returncode |-> 1, condition |-> "forbidden",
        stdout |-> "ERROR: (gcloud.storage.objects.describe) HTTPError 403: access denied" ],
      [ returncode |-> 1, condition |-> "no_credentials",
        stdout |-> "ERROR: gcloud crashed (DefaultCredentialsError): File /key.json was not found." ] }

InitGate ==
    /\ os_name \in OsNames
    /\ os_version = "latest"
    /\ type = {}
    /\ upload = FALSE
    /\ store \in SUBSET { StoragePath(os_name, b) : b \in GateBundleIds }
    /\ catalog = NoCatalog
    /\ disc = [stage |-> "none", first |-> << >>, second |-> << >>]
    /\ pc = "idle"
    /\ call = NoCall
    /\ Idle

\* has_symbols_in_cloud_storage(prefix, bundle_id)
AskGate ==
    /\ call = NoCall
    /\ \E bundle_id \in GateBundleIds :
          \E result \in DescribeResults(store, StoragePath(os_name, bundle_id)) :
              call' = [ fn |-> "has_symbols_in_cloud_storage", prefix |-> os_name,
                        bundle_id |-> bundle_id, result |-> result,
                        outcome |-> GateOutcome(result) ]
    /\ UNCHANGED << conf, store, catalog, disc, pc, work >>

NextGate == AskGate

SpecGate == InitGate /\ [][NextGate]_vars

\* ------------------------------------------------------------------------
\* The selection of one device's incremental updates on its own: the filter,
\* the sort and the version selector of get_missing_ota_only_releases
\* ------------------------------------------------------------------------
SelectDevice == "AppleTV5,3"

\* entries the device's listing is drawn from: the pool of the catalogs and
\* a second build of its most recent version, released a few days earlier
SelectPool ==
    OtaFirmwarePool(SelectDevice) \cup
    { Firmware(SelectDevice, "9.9.16.1", "20B80", "https://u/" \o SelectDevice \o "/e.zip",
               "Release", "", "", "2022-10-20T17:00:00Z") }

InitSelect ==
    /\ os_name = "tvos"
    /\ os_version \in Selectors
    /\ type = {"ota"}
    /\ upload = FALSE
    /\ store = {}
    /\ \E l \in ListsUpTo(SelectPool, MaxFirmwares) :
          catalog = [ota |-> << l >>, ipsw |-> << >>, info |-> << >>]
    /\ disc = [stage |-> "none", first |-> << >>, second |-> << >>]
    /\ pc = "idle"
    /\ call = NoCall
    /\ Idle

\* qualifying_firmwares and firmwares for the device; with no qualifying
\* entry the loop continues before the selector is looked at
SelectForDevice ==
    /\ call = NoCall
    /\ LET qualifying_firmwares == SortByDate(SelectSeq(catalog.ota[1], Qualifies))
       IN  call' = [ fn |-> "select", qualifying_firmwares |-> qualifying_firmwares,
                     firmwares |-> IF qualifying_firmwares = << >> THEN << >>
                                   ELSE SelectFirmwares(os_version, qualifying_firmwares) ]
    /\ UNCHANGED << conf, store, catalog, disc, pc, work >>

NextSelect == SelectForDevice

SpecSelect == InitSelect /\ [][NextSelect]_vars

\* ------------------------------------------------------------------------
\* main(): the run of each requested kind
\* ------------------------------------------------------------------------
\* the runs that are enumerated: full images for every family, incremental
\* updates for a family of two devices and for a family without devices
\* (main_download_otas uses the family for its device list and as the prefix)
RunConfigs ==
    { [os_name |-> n, type |-> {"ipsw"}, os_version |-> "latest"] : n \in OsNames } \cup
    { [os_name |-> "tvos", type |-> {"ipsw"}, os_version |-> "all"] } \cup
    { [os_name |-> n, type |-> {"ota"}, os_version |-> v] :
        n \in {"tvos", "visionos"}, v \in Selectors }

\* the catalogs a run may meet: at most one entry in each listing
RunOtaListings(name) ==
    Product([i \in 1..Len(DevicesOf(name)) |->
                 {<< >>} \cup { << f >> : f \in OtaFirmwarePool(DevicesOf(name)[i].identifier) }])

RunIpswListings(name) ==
    [1..Len(DevicesOf(name)) -> { {}, {[version |-> "16.0", buildid |-> "20A362"]} }]

Init ==
    /\ \E c \in RunConfigs :
          /\ os_name = c.os_name
          /\ type = c.type
          /\ os_version = c.os_version
          /\ store \in UNION { InitialStores(c.os_name, k) : k \in c.type }
    /\ upload \in BOOLEAN
    /\ catalog = NoCatalog
    /\ disc = [stage |-> "none", first |-> << >>, second |-> << >>]
    /\ pc = "main_ota"
    /\ call = NoCall
    /\ Idle

\* names of the file systems the program reads (inputs)
\* the entries a shared-cache directory is drawn from
SharedCacheDirPool == { "dyld_shared_cache_arm64e", "dyld_shared_cache_arm64e.1" }

\* the test of the two listing loops: a file that is not skipped
IsBaseCacheFile(filename) ==
    ~(~StartsWith(filename, "dyld_shared_cache") \/ Splitext1(filename) # "")

\* other_dylib_paths of symsort_utilities, below the volume or payload tree
OtherDylibPaths == << "usr/lib", "System/Library/AccessibilityBundles" >>

\* the bundle id the extraction of a release wrote under, with the version
\* and the build the bundle id was made of
Written(r, os_version_read, build_number_read, bundle_id) ==
    [ release |-> r, os_version |-> os_version_read, build_number |-> build_number_read,
      bundle_id |-> bundle_id ]

\* what one symsorter call leaves in the output root
Sorted(prefix, bundle_id, source) ==
    [prefix |-> prefix, bundle_id |-> bundle_id, source |-> source]

\* OtaExceptNext with a handler that re-raises in every mode
OtaExceptNextReraises(version) == "crashed"

\* where main_download_otas goes on after its handler caught an exception
OtaExceptNext(version) == "ota_loop"

\* whether the handler of main_download_otas logs the exception
OtaExceptLogs(version) == version = "all"

\* AfterDiscovery without the early return
AfterDiscoveryNoReturn(raised, found, loop, return) == IF raised THEN "crashed" ELSE loop

\* where an orchestrator goes after discovery: out with the exception, back
\* to main for `if len(...) == 0: return`, or on to its loop
AfterDiscovery(raised, found, loop, return) ==
    IF raised THEN "crashed" ELSE IF found = 0 THEN return ELSE loop

\* main, line 125-126, and main_download_otas up to the first loop test:
\* discovery, the early return, the two temporary directories
OtaCheck ==
    /\ pc = "main_ota"
    /\ IF "ota" \notin type
       THEN /\ pc' = "main_ipsw"
            /\ UNCHANGED work
       ELSE \E o \in RunOtaListings(os_name), l \in RunIpswListings(os_name),
               fail_at \in 0..(2 * Len(DevicesOf(os_name))), reachable \in BOOLEAN :
              LET ota == Responses(o, "firmwares", fail_at)
                  ipsw == Responses(l, "firmwares", fail_at - Len(o))
                  r == get_missing_ota_only_releases(os_name, os_version, ota, ipsw,
                                                     store, reachable)
                  asked == OtaAsked(os_name, os_version, ota, ipsw, store, reachable)
              IN  /\ hist' = [NoHistory EXCEPT
                                !.kind = "ota",
                                !.store_seen = store,
                                !.http_failed = OtaRequestFailed(o, fail_at),
                                !.discovered = { r.rv[k] : k \in 1..Len(r.rv) },
                                !.gate_false = { a.bundle_id : a \in { b \in asked : b.answer = "false" } },
                                !.gate_true = { a.bundle_id : a \in { b \in asked : b.answer = "true" } }]
                  /\ otas' = r.rv
                  /\ pc' = AfterDiscovery(r.raised, Len(r.rv), "ota_loop", "main_ipsw")
                  /\ tempdirs' = IF r.raised \/ Len(r.rv) = 0 THEN {}
                                 ELSE {"symcache_output", "ota_archives"}
                  /\ UNCHANGED << url_to_ipsws, ipsws, release, ext, mounted, output >>
    /\ UNCHANGED << call, conf, store, catalog, disc >>

\* one pass of the loop of main_download_otas up to download_archive
OtaDownload ==
    /\ pc = "ota_loop"
    /\ otas # << >>
    /\ release' = Head(otas)
    /\ ext' = [NoExtraction EXCEPT !.bundle_id = OtaBundleId(Head(otas))]
    /\ hist' = [hist EXCEPT !.entered = @ \cup {Head(otas)},
                            !.downloads = Append(@, Head(otas).url)]
    /\ \E ok \in BOOLEAN : pc' = IF ok THEN "ota_unzip" ELSE "ota_except"
    /\ UNCHANGED << call, conf, store, catalog, disc, otas, url_to_ipsws, ipsws, tempdirs,
                    mounted, output >>

\* extract_symbols_from_one_ota_archive: the first temporary directory and
\* extract_zip_archive
OtaUnzip ==
    /\ pc = "ota_unzip"
    /\ \E ok \in BOOLEAN :
          /\ pc' = IF ok THEN "ota_unpack" ELSE "ota_except"
          /\ tempdirs' = IF ok THEN tempdirs \cup {"ota_extract_dir"} ELSE tempdirs
    /\ hist' = [hist EXCEPT !.started = @ \cup {release}]
    /\ UNCHANGED << call, conf, store, catalog, disc, otas, url_to_ipsws, ipsws, release, ext,
                    mounted, output >>

\* extract_symbols_from_one_ota_archive: the second temporary directory,
\* unpack_ota and the test of the shared-cache directory.  unpack_ota raises
\* when the payload directory cannot be listed; a failing ota tool is logged
\* by run_ota and not raised.
OtaUnpack ==
    /\ pc = "ota_unpack"
    /\ \/ \* os.listdir(payload_path) raises
          /\ pc' = "ota_except"
          /\ tempdirs' = tempdirs \ {"ota_extract_dir"}
          /\ UNCHANGED << otas, ext, hist >>
       \/ \* no shared-cache directory: warning and return
          /\ pc' = "ota_loop"
          /\ otas' = Tail(otas)
          /\ tempdirs' = tempdirs \ {"ota_extract_dir"}
          /\ hist' = [hist EXCEPT !.extracted = @ \cup {release}]
          /\ ext' = NoExtraction
       \/ \E tool_failed \in BOOLEAN, listing \in SUBSET SharedCacheDirPool :
             /\ pc' = "caches"
             /\ tempdirs' = tempdirs \cup {"final_ota_extract_dir"}
             /\ ext' = [ext EXCEPT !.files = { f \in listing : IsBaseCacheFile(f) },
                                   !.dylib_paths = OtherDylibPaths,
                                   !.unpack_failed = tool_failed]
             /\ UNCHANGED << otas, hist >>
    /\ UNCHANGED << call, conf, store, catalog, disc, url_to_ipsws, ipsws, release, mounted, output >>

\* AfterTry with the unmount at the end of the try block instead of in a
\* finally clause
AfterTryNoFinally(raised) == IF raised THEN "ipsw_raise" ELSE "ipsw_unmount"

\* where process_one_dmg goes when its try block ends, with or without an
\* exception: the finally clause
AfterTry(raised) == "ipsw_unmount"

\* where an exception raised below the extraction of the current release
\* goes: to the handler of main_download_otas, or to the finally of
\* process_one_dmg
RaiseTarget == IF hist.kind = "ota" THEN "ota_except" ELSE AfterTry(TRUE)

\* one pass of the loop over the shared-cache directory:
\* process_shared_cache_file for a file that is not skipped
ProcessSharedCacheFile ==
    /\ pc = "caches"
    /\ ext.files # {}
    /\ \E filename \in ext.files, outcome \in {"ok", "extractor_failed", "symsorter_failed"} :
          IF outcome = "ok"
          THEN /\ output' = output \cup {Sorted(release.os_name, ext.bundle_id, filename)}
               /\ ext' = [ext EXCEPT !.files = @ \ {filename}, !.wrote = @ + 1]
               /\ pc' = "caches"
               /\ UNCHANGED tempdirs
          ELSE /\ ext' = [ext EXCEPT !.raised = TRUE, !.failed_item = filename]
               /\ pc' = RaiseTarget
               /\ tempdirs' = tempdirs \ {"ota_extract_dir", "final_ota_extract_dir"}
               /\ UNCHANGED output
    /\ UNCHANGED << call, conf, store, catalog, disc, otas, url_to_ipsws, ipsws, release, mounted,
                    hist >>

\* symsort_utilities: symsorter for the next of the two other dylib paths;
\* after the second the extraction of an incremental update returns
SymsortUtilities ==
    /\ pc = "caches"
    /\ ext.files = {}
    /\ ext.dylib_paths # << >>
    /\ \E ok \in BOOLEAN :
          IF ok
          THEN /\ output' = output \cup
                     {Sorted(release.os_name, ext.bundle_id, Head(ext.dylib_paths))}
               /\ IF Len(ext.dylib_paths) > 1 THEN
                      /\ pc' = "caches"
                      /\ ext' = [ext EXCEPT !.dylib_paths = Tail(@), !.wrote = @ + 1]
                      /\ UNCHANGED << tempdirs, otas, hist >>
                  ELSE IF hist.kind = "ota" THEN
                      /\ pc' = "ota_loop"
                      /\ ext' = NoExtraction
                      /\ otas' = Tail(otas)
                      /\ tempdirs' = tempdirs \ {"ota_extract_dir", "final_ota_extract_dir"}
                      /\ hist' = [hist EXCEPT
                                    !.extracted = @ \cup {release},
                                    !.written = @ \cup {Written(release, release.os_version,
                                                     release.build_number, ext.bundle_id)}]
                  ELSE
                      /\ pc' = AfterTry(FALSE)
                      /\ ext' = [ext EXCEPT !.dylib_paths = Tail(@), !.wrote = @ + 1]
                      /\ UNCHANGED << tempdirs, otas, hist >>
          ELSE /\ ext' = [ext EXCEPT !.raised = TRUE, !.failed_item = Head(ext.dylib_paths)]
               /\ pc' = RaiseTarget
               /\ tempdirs' = tempdirs \ {"ota_extract_dir", "final_ota_extract_dir"}
               /\ UNCHANGED << output, otas, hist >>
    /\ UNCHANGED << call, conf, store, catalog, disc, url_to_ipsws, ipsws, release, mounted >>

\* the except clause of main_download_otas
OtaExcept ==
    /\ pc = "ota_except"
    /\ hist' = [hist EXCEPT
                  !.failed = @ \cup {release},
                  !.errors_logged = IF OtaExceptLogs(os_version) THEN @ + 1 ELSE @,
                  !.partial = IF ext.wrote > 0 THEN @ \cup {ext.bundle_id} ELSE @]
    /\ pc' = OtaExceptNext(os_version)
    /\ otas' = Tail(otas)
    /\ ext' = NoExtraction
    /\ UNCHANGED << call, conf, store, catalog, disc, url_to_ipsws, ipsws, release, tempdirs,
                    mounted, output >>

\* the bundle ids of the entries of the output root
BundlesIn(out) == { StoragePath(e.prefix, e.bundle_id) : e \in out }

\* Publish with an upload_to_gcs that copies an empty output root too
PublishWithoutEmptyTest(next) ==
    /\ tempdirs' = {}
    /\ output' = {}
    /\ IF ~upload THEN
           /\ pc' = next
           /\ hist' = [hist EXCEPT !.reached_publish = TRUE, !.output_at_publish = output]
           /\ UNCHANGED store
       ELSE \E ok \in BOOLEAN :
               \E copied \in (IF ok THEN {BundlesIn(output)} ELSE SUBSET BundlesIn(output)) :
                   /\ pc' = IF ok THEN next ELSE "crashed"
                   /\ store' = store \cup copied
                   /\ hist' = [hist EXCEPT !.reached_publish = TRUE,
                                           !.output_at_publish = output,
                                           !.upload_calls = @ + 1, !.copies = @ + 1,
                                           !.published = @ \cup copied]

\* the end of a run of one kind: the archive directory is removed, then
\* `if upload: upload_to_gcs(symcache_output)`, then the output root is
\* removed.  A copy that fails may have copied any part.
Publish(next) ==
    /\ tempdirs' = {}
    /\ output' = {}
    /\ IF ~upload THEN
           /\ pc' = next
           /\ hist' = [hist EXCEPT !.reached_publish = TRUE, !.output_at_publish = output]
           /\ UNCHANGED store
       ELSE IF output = {} THEN
           /\ pc' = next
           /\ hist' = [hist EXCEPT !.reached_publish = TRUE, !.output_at_publish = output,
                                   !.upload_calls = @ + 1]
           /\ UNCHANGED store
       ELSE \E ok \in BOOLEAN :
               \E copied \in (IF ok THEN {BundlesIn(output)} ELSE SUBSET BundlesIn(output)) :
                   /\ pc' = IF ok THEN next ELSE "crashed"
                   /\ store' = store \cup copied
                   /\ hist' = [hist EXCEPT !.reached_publish = TRUE,
                                           !.output_at_publish = output,
                                           !.upload_calls = @ + 1, !.copies = @ + 1,
                                           !.published = @ \cup copied]

\* main_download_otas after its loop
OtaPublish ==
    /\ pc = "ota_loop"
    /\ otas = << >>
    /\ Publish("main_ipsw")
    /\ UNCHANGED << call, conf, catalog, disc, otas, url_to_ipsws, ipsws, release, ext, mounted >>

\* ------------------------------------------------------------------------
\* main_download_ipsws
\* ------------------------------------------------------------------------
\* ProductVersion and ProductBuildVersion the version manifest of an archive
\* of a family may carry (inputs)
PlistVersions(prefix) ==
    IF prefix = "macos" THEN {"12.9", "13.0", "14.1"} ELSE {"15.9", "16.0", "17.1"}

PlistBuilds == {"20A362"}

\* paths of system images a manifest may name (inputs)
ImagePool == { "090-1.dmg", "090-2.dmg.aea" }

\* UsesBuildManifest with the 16.0 threshold for every family but macos
UsesBuildManifestAnyFamily(prefix, parsed_version) ==
    \/ prefix = "macos" /\ VersionGE(parsed_version, version_parse("13.0"))
    \/ prefix # "macos" /\ VersionGE(parsed_version, version_parse("16.0"))

\* the test of extract_symbols_from_one_ipsw_archive for the build manifest
UsesBuildManifest(prefix, parsed_version) ==
    \/ prefix = "macos" /\ VersionGE(parsed_version, version_parse("13.0"))
    \/ prefix = "ios" /\ VersionGE(parsed_version, version_parse("16.0"))

\* main, line 127-128, and main_download_ipsws up to the first loop test
IpswCheck ==
    /\ pc = "main_ipsw"
    /\ IF "ipsw" \notin type
       THEN /\ pc' = "done"
            /\ UNCHANGED work
       ELSE \E i \in IpswInfos(os_name), fail_at \in 0..Len(DevicesOf(os_name)),
               reachable \in BOOLEAN :
              LET info == Responses(i, "json", fail_at)
                  r == get_missing_ipsws(os_name, os_version, info, store, reachable)
                  asked == IF r.raised THEN {}
                           ELSE IpswAsked(os_name, info, store, reachable)
                  missing == { a \in asked : a.answer = "false" }
              IN  /\ hist' = [NoHistory EXCEPT
                                !.kind = "ipsw",
                                !.store_seen = store,
                                !.http_failed = IpswRequestFailed(os_name, i, fail_at,
                                                                  store, reachable),
                                !.discovered = UNION { r.url_to_ipsw[k].value :
                                                         k \in 1..Len(r.url_to_ipsw) },
                                !.gate_false = { a.bundle_id : a \in missing },
                                !.gate_true = { a.bundle_id : a \in { b \in asked : b.answer = "true" } },
                                !.reported = { [device |-> a.device, url |-> a.url,
                                                ipsw |-> a.ipsw] : a \in missing }]
                  /\ url_to_ipsws' = r.url_to_ipsw
                  /\ pc' = AfterDiscovery(r.raised, Len(r.url_to_ipsw), "ipsw_loop", "done")
                  /\ tempdirs' = IF r.raised \/ Len(r.url_to_ipsw) = 0 THEN {}
                                 ELSE {"symcache_output", "ipsw_archives"}
                  /\ UNCHANGED << otas, ipsws, release, ext, mounted, output >>
    /\ UNCHANGED << call, conf, store, catalog, disc >>

\* IpswDownload with an inner loop over the full images of every archive
IpswDownloadThenAll ==
    /\ pc = "ipsw_loop"
    /\ url_to_ipsws # << >>
    /\ hist' = [hist EXCEPT !.entered = @ \cup Head(url_to_ipsws).value,
                            !.downloads = Append(@, Head(url_to_ipsws).key)]
    /\ ipsws' = UNION { url_to_ipsws[k].value : k \in 1..Len(url_to_ipsws) }
    /\ release' = NoRelease
    /\ \E ok \in BOOLEAN : pc' = IF ok THEN "ipsw_next" ELSE "ipsw_raise"
    /\ UNCHANGED << call, conf, store, catalog, disc, otas, url_to_ipsws, ext, tempdirs,
                    mounted, output >>

\* one pass of the outer loop of main_download_ipsws: download_archive
IpswDownload ==
    /\ pc = "ipsw_loop"
    /\ url_to_ipsws # << >>
    /\ hist' = [hist EXCEPT !.entered = @ \cup Head(url_to_ipsws).value,
                            !.downloads = Append(@, Head(url_to_ipsws).key)]
    /\ ipsws' = Head(url_to_ipsws).value
    /\ release' = NoRelease
    /\ \E ok \in BOOLEAN : pc' = IF ok THEN "ipsw_next" ELSE "ipsw_raise"
    /\ UNCHANGED << call, conf, store, catalog, disc, otas, url_to_ipsws, ext, tempdirs,
                    mounted, output >>

\* one pass of the inner loop, in the order the set yields: the extraction
\* directory and extract_zip_archive
IpswUnzip ==
    /\ pc = "ipsw_next"
    /\ ipsws # {}
    /\ \E i \in ipsws :
          /\ release' = i
          /\ ipsws' = ipsws \ {i}
          /\ hist' = [hist EXCEPT !.started = @ \cup {i}]
    /\ ext' = NoExtraction
    /\ tempdirs' = tempdirs \cup {"ipsw_extract_dir"}
    /\ \E ok \in BOOLEAN : pc' = IF ok THEN "ipsw_version" ELSE "ipsw_raise"
    /\ UNCHANGED << call, conf, store, catalog, disc, otas, url_to_ipsws, mounted, output >>

\* the inner loop is exhausted: the next archive
IpswNextArchive ==
    /\ pc = "ipsw_next"
    /\ ipsws = {}
    /\ url_to_ipsws' = Tail(url_to_ipsws)
    /\ pc' = "ipsw_loop"
    /\ UNCHANGED << call, conf, store, catalog, disc, otas, ipsws, release, ext, tempdirs, mounted,
                    output, hist >>

\* read_system_version_plist or read_version_from_restore_plist, and the
\* choice of the manifest
IpswReadVersion ==
    /\ pc = "ipsw_version"
    /\ \/ \* the manifest is missing or lacks a key
          /\ pc' = "ipsw_raise"
          /\ UNCHANGED ext
       \/ \E v \in PlistVersions(release.os_name), b \in PlistBuilds :
             /\ ext' = [ext EXCEPT
                          !.os_version = v, !.build_number = b,
                          !.manifest = IF UsesBuildManifest(release.os_name, version_parse(v))
                                       THEN "build" ELSE "legacy"]
             /\ pc' = "ipsw_manifest"
    /\ UNCHANGED << call, conf, store, catalog, disc, otas, url_to_ipsws, ipsws, release, tempdirs,
                    mounted, output, hist >>

\* read_build_manifest_plist: one image; read_restore_plist: the keys of
\* SystemRestoreImageFileSystems, all of which the loop processes
IpswReadManifest ==
    /\ pc = "ipsw_manifest"
    /\ \/ /\ pc' = "ipsw_raise"
          /\ UNCHANGED ext
       \/ /\ ext.manifest = "build"
          /\ \E image \in ImagePool :
                ext' = [ext EXCEPT !.images = << image >>, !.listed = << image >>]
          /\ pc' = "ipsw_dmg"
       \/ /\ ext.manifest = "legacy"
          /\ \E images \in ListsUpTo(ImagePool, MaxImages) :
                ext' = [ext EXCEPT !.images = images, !.listed = images]
          /\ pc' = "ipsw_dmg"
    /\ UNCHANGED << call, conf, store, catalog, disc, otas, url_to_ipsws, ipsws, release, tempdirs,
                    mounted, output, hist >>

\* process_one_dmg up to the mount: an .aea image is decrypted first
Decrypt ==
    /\ pc = "ipsw_dmg"
    /\ ext.images # << >>
    /\ hist' = [hist EXCEPT !.mount_attempts = 0, !.unmounts = 0]
    /\ IF PathSuffix(Head(ext.images)) = ".aea"
       THEN \E outcome \in {"ok", "key_failed", "decrypt_failed"} :
               /\ ext' = [ext EXCEPT !.image = WithSuffixEmpty(Head(ext.images))]
               /\ pc' = IF outcome = "ok" THEN "ipsw_mount" ELSE "ipsw_raise"
       ELSE /\ ext' = [ext EXCEPT !.image = Head(ext.images)]
            /\ pc' = "ipsw_mount"
    /\ UNCHANGED << call, conf, store, catalog, disc, otas, url_to_ipsws, ipsws, release, tempdirs,
                    mounted, output >>

\* process_one_dmg: `hdiutil attach ... | grep /Volumes/ | cut -f 3` through
\* a shell.  The status of the pipeline is the status of cut, so a failed
\* attach does not raise: it yields an empty volume_path.
Mount ==
    /\ pc = "ipsw_mount"
    /\ hist' = [hist EXCEPT !.mount_attempts = @ + 1]
    /\ \E ok \in BOOLEAN :
          /\ ext' = [ext EXCEPT !.volume_path = IF ok THEN "/Volumes/" \o ext.image ELSE ""]
          /\ mounted' = IF ok THEN mounted \cup {"/Volumes/" \o ext.image} ELSE mounted
    /\ pc' = "ipsw_listdir"
    /\ UNCHANGED << call, conf, store, catalog, disc, otas, url_to_ipsws, ipsws, release, tempdirs,
                    output >>

\* process_one_dmg: the bundle id and os.listdir(shared_cache_dir), which
\* raises when the directory is absent, as it is below an empty volume_path
ListSharedCacheDir ==
    /\ pc = "ipsw_listdir"
    /\ \/ /\ ext' = [ext EXCEPT
                       !.bundle_id = IpswBundleId(ext.os_version, ext.build_number,
                                                  release.architecture),
                       !.raised = TRUE]
          /\ pc' = AfterTry(TRUE)
       \/ /\ ext.volume_path # ""
          /\ \E listing \in SUBSET SharedCacheDirPool :
                ext' = [ext EXCEPT
                          !.bundle_id = IpswBundleId(ext.os_version, ext.build_number,
                                                     release.architecture),
                          !.files = { f \in listing : IsBaseCacheFile(f) },
                          !.dylib_paths = OtherDylibPaths]
          /\ pc' = "caches"
    /\ UNCHANGED << call, conf, store, catalog, disc, otas, url_to_ipsws, ipsws, release, tempdirs,
                    mounted, output, hist >>

\* DetachReturns for a detach whose exit status is not checked
DetachReturnsUnchecked(ok, raised) == ~raised

\* process_one_dmg returns normally from its finally clause: check_call of
\* hdiutil detach succeeded and no exception was pending
DetachReturns(ok, raised) == ok /\ ~raised

\* process_one_dmg, the finally clause: hdiutil detach, which fails for an
\* empty volume_path; its CalledProcessError replaces a pending exception
Unmount ==
    /\ pc = "ipsw_unmount"
    /\ hist' = [hist EXCEPT !.unmounts = @ + 1]
    /\ \E ok \in (IF ext.volume_path = "" THEN {FALSE} ELSE BOOLEAN) :
          /\ mounted' = IF ok THEN mounted \ {ext.volume_path} ELSE mounted
          /\ IF DetachReturns(ok, ext.raised)
             THEN /\ pc' = "ipsw_dmg"
                  /\ ext' = [ext EXCEPT !.images = Tail(@), !.image = "", !.volume_path = "",
                                        !.files = {}, !.dylib_paths = << >>]
             ELSE /\ pc' = "ipsw_raise"
                  /\ ext' = [ext EXCEPT
                                !.raised = TRUE,
                                !.pending = ext.raised,
                                !.detach_failed = ~ok,
                                !.error = IF ~ok THEN "detach" ELSE "try"]
    /\ UNCHANGED << call, conf, store, catalog, disc, otas, url_to_ipsws, ipsws, release, tempdirs,
                    output >>

\* extract_symbols_from_one_ipsw_archive returns: the extraction directory
\* is removed
IpswExtracted ==
    /\ pc = "ipsw_dmg"
    /\ ext.images = << >>
    /\ tempdirs' = tempdirs \ {"ipsw_extract_dir"}
    /\ hist' = [hist EXCEPT
                  !.extracted = @ \cup {release},
                  !.written = IF ext.wrote = 0 THEN @
                              ELSE @ \cup {Written(release, ext.os_version, ext.build_number,
                                                   ext.bundle_id)},
                  !.mount_attempts = 0, !.unmounts = 0]
    /\ ext' = NoExtraction
    /\ pc' = "ipsw_next"
    /\ UNCHANGED << call, conf, store, catalog, disc, otas, url_to_ipsws, ipsws, release,
                    mounted, output >>

\* an exception leaves main_download_ipsws, which catches nothing: the
\* temporary directories are removed on the way
\* IpswRaiseNext for an orchestrator that isolates failures in bulk mode
IpswRaiseNextIsolated(version) == IF version = "all" THEN "ipsw_next" ELSE "crashed"

\* where an exception goes that reaches main_download_ipsws: the function has
\* no handler, for any selector
IpswRaiseNext(version) == "crashed"

IpswPropagate ==
    /\ pc = "ipsw_raise"
    /\ tempdirs' = {}
    /\ output' = {}
    /\ hist' = [hist EXCEPT
                  !.failed = @ \cup (IF release = NoRelease THEN ipsws ELSE {release}),
                  !.partial = IF ext.wrote > 0 THEN @ \cup {ext.bundle_id} ELSE @]
    /\ pc' = IpswRaiseNext(os_version)
    /\ UNCHANGED << call, conf, store, catalog, disc, otas, url_to_ipsws, ipsws, release, ext,
                    mounted >>

\* main_download_ipsws after its loops
IpswPublish ==
    /\ pc = "ipsw_loop"
    /\ url_to_ipsws = << >>
    /\ Publish("done")
    /\ UNCHANGED << call, conf, catalog, disc, otas, url_to_ipsws, ipsws, release, ext, mounted >>

Next ==
    \/ OtaCheck
    \/ OtaDownload
    \/ OtaUnzip
    \/ OtaUnpack
    \/ ProcessSharedCacheFile
    \/ SymsortUtilities
    \/ OtaExcept
    \/ OtaPublish
    \/ IpswCheck
    \/ IpswDownload
    \/ IpswUnzip
    \/ IpswNextArchive
    \/ IpswReadVersion
    \/ IpswReadManifest
    \/ Decrypt
    \/ Mount
    \/ ListSharedCacheDir
    \/ Unmount
    \/ IpswExtracted
    \/ IpswPropagate
    \/ IpswPublish

Spec == Init /\ [][Next]_vars

\* ------------------------------------------------------------------------
\* import_system_symbols_from_simulators.py: main() over the simulator
\* runtimes found below the caches directory
\* ------------------------------------------------------------------------
dyld_shared_cache_prefix == "dyld_sim_shared_cache_"

ignored_dyld_file_suffixes == {".map", ".atlas", ".dylddata"}

is_ignored_dsc_file(filename) ==
    \/ ~StartsWith(filename, dyld_shared_cache_prefix)
    \/ Splitext1(filename) \in ignored_dyld_file_suffixes

\* filename.split(_dyld_shared_cache_prefix)[1] for a file name that starts
\* with the prefix: the text after it, up to the next occurrence of the prefix
ArchOfFile(filename) ==
    LET rest == SubSeq(filename, Len(dyld_shared_cache_prefix) + 1, Len(filename))
        n == Len(dyld_shared_cache_prefix)
        at == { i \in 1..(Len(rest) - n + 1) : SubSeq(rest, i, i + n - 1) = dyld_shared_cache_prefix }
    IN  IF at = {} THEN rest
        ELSE SubSeq(rest, 1, (CHOOSE i \in at : \A j \in at : i <= j) - 1)

\* SimulatorRuntime.bundle_id
SimulatorBundleId(runtime) ==
    "simulator_" \o runtime.macos_version \o "_" \o runtime.os_version \o "_"
        \o runtime.build_number \o "_" \o runtime.arch

\* entries of a runtime directory
SimulatorFilePool ==
    { "dyld_sim_shared_cache_arm64", "dyld_sim_shared_cache_x86_64",
      "dyld_sim_shared_cache_arm64.map" }

\* a SimulatorRuntime as find_simulator_runtimes appends it, with the entries
\* of its directory: arch comes from the first entry that starts with the prefix
SimulatorRuntime(build_number, macos_version, dirname, name, version, listing, first) ==
    [ arch |-> ArchOfFile(first), build_number |-> build_number,
      macos_version |-> macos_version, os_name |-> name, os_version |-> version,
      path |-> "/Library/Developer/CoreSimulator/Caches/dyld/" \o macos_version
                 \o "/com.apple.CoreSimulator.SimRuntime." \o dirname \o "." \o build_number,
      listing |-> listing ]

SimulatorRuntimePool ==
    { SimulatorRuntime("21A328", "14.0", "iOS-17-0", "ios", "17.0", l, f) :
        l \in (SUBSET SimulatorFilePool) \ {{}}, f \in SimulatorFilePool } \cup
    { SimulatorRuntime("21J353", "14.0", "tvOS-17-0", "tvos", "17.0",
                       {"dyld_sim_shared_cache_arm64"}, "dyld_sim_shared_cache_arm64") }

\* the lists find_simulator_runtimes can return: one runtime per directory
SimulatorRuntimeLists ==
    { l \in UNION { [1..k -> SimulatorRuntimePool] : k \in 0..2 } :
        /\ \A i, j \in 1..Len(l) : l[i].path = l[j].path => i = j
        /\ \A i \in 1..Len(l) :
              \E f \in l[i].listing :
                 /\ l[i].arch = ArchOfFile(f)
                 /\ StartsWith(f, dyld_shared_cache_prefix) }

SimulatorBundlePaths ==
    { StoragePath("ios", "simulator_14.0_17.0_21A328_" \o a) : a \in {"arm64", "x86_64"} }

NoRuntime == [path |-> ""]

InitSimulators ==
    /\ os_name = ""
    /\ os_version = ""
    /\ type = {}
    /\ upload = TRUE
    /\ store \in SUBSET SimulatorBundlePaths
    /\ catalog = NoCatalog
    /\ disc = [stage |-> "none", first |-> << >>, second |-> << >>]
    /\ pc = "sim_runtimes"
    /\ \E runtimes \in SimulatorRuntimeLists :
          call = [ fn |-> "main", runtimes |-> runtimes, runtime |-> NoRuntime,
                   files |-> {}, inner |-> {}, gate_true |-> {}, invoked |-> {} ]
    /\ Idle

\* main: the next runtime and os.listdir(runtime.path)
SimNextRuntime ==
    /\ pc = "sim_runtimes"
    /\ call.runtimes # << >>
    /\ call' = [call EXCEPT !.runtime = Head(call.runtimes),
                            !.runtimes = Tail(@),
                            !.files = Head(call.runtimes).listing]
    /\ pc' = "sim_files"
    /\ UNCHANGED << conf, store, catalog, disc, work >>

\* main: one pass of the loop over the entries of the runtime directory: an
\* ignored entry is skipped; otherwise runtime.arch is set from the file name
\* and the gate is asked about runtime.bundle_id
SimNextFile ==
    /\ pc = "sim_files"
    /\ \E filename \in call.files, reachable \in BOOLEAN :
          IF is_ignored_dsc_file(filename)
          THEN /\ call' = [call EXCEPT !.files = @ \ {filename}]
               /\ pc' = "sim_files"
          ELSE LET runtime == [call.runtime EXCEPT !.arch = ArchOfFile(filename)]
                   answer == has_symbols_in_cloud_storage(store, reachable, runtime.os_name,
                                                          SimulatorBundleId(runtime))
               IN  /\ call' = [call EXCEPT
                                 !.files = @ \ {filename},
                                 !.runtime = runtime,
                                 !.gate_true = IF answer = "true"
                                               THEN @ \cup {SimulatorBundleId(runtime)} ELSE @,
                                 !.inner = IF answer = "false" THEN runtime.listing ELSE {}]
                   /\ pc' = IF answer = "raise" THEN "crashed"
                            ELSE IF answer = "true" THEN "sim_files"
                            ELSE "sim_extract"
    /\ UNCHANGED << conf, store, catalog, disc, work >>

\* main: the loop over the entries of the runtime directory ends
SimRuntimeDone ==
    /\ pc = "sim_files"
    /\ call.files = {}
    /\ pc' = "sim_runtimes"
    /\ UNCHANGED << call, conf, store, catalog, disc, work >>

\* extract_system_symbols: one pass of its loop over the entries of the
\* runtime directory: dyld-shared-cache-extractor and symsorter for an entry
\* that is not ignored, under runtime.bundle_id
SimExtractFile ==
    /\ pc = "sim_extract"
    /\ \E filename \in call.inner, ok \in BOOLEAN :
          IF is_ignored_dsc_file(filename)
          THEN /\ call' = [call EXCEPT !.inner = @ \ {filename}]
               /\ pc' = "sim_extract"
               /\ UNCHANGED output
          ELSE /\ call' = [call EXCEPT
                             !.inner = @ \ {filename},
                             !.invoked = @ \cup {[runtime |-> call.runtime,
                                                  filename |-> filename,
                                                  bundle_id |-> SimulatorBundleId(call.runtime)]}]
               /\ pc' = IF ok THEN "sim_extract" ELSE "crashed"
               /\ output' = IF ok
                            THEN output \cup {Sorted(call.runtime.os_name,
                                                     SimulatorBundleId(call.runtime), filename)}
                            ELSE {}
    /\ UNCHANGED << conf, store, catalog, disc, otas, url_to_ipsws, ipsws, release, ext,
                    tempdirs, mounted, hist >>

\* extract_system_symbols returns
SimExtractReturn ==
    /\ pc = "sim_extract"
    /\ call.inner = {}
    /\ pc' = "sim_files"
    /\ UNCHANGED << call, conf, store, catalog, disc, work >>

\* main: upload_to_gcs(output_dir) after the loop over the runtimes
SimUpload ==
    /\ pc = "sim_runtimes"
    /\ call.runtimes = << >>
    /\ output' = {}
    /\ IF output = {}
       THEN /\ pc' = "done"
            /\ UNCHANGED store
       ELSE \E ok \in BOOLEAN :
               \E copied \in (IF ok THEN {BundlesIn(output)} ELSE SUBSET BundlesIn(output)) :
                   /\ pc' = IF ok THEN "done" ELSE "crashed"
                   /\ store' = store \cup copied
    /\ UNCHANGED << call, conf, catalog, disc, otas, url_to_ipsws, ipsws, release, ext,
                    tempdirs, mounted, hist >>

NextSimulators ==
    \/ SimNextRuntime
    \/ SimNextFile
    \/ SimRuntimeDone
    \/ SimExtractFile
    \/ SimExtractReturn
    \/ SimUpload

SpecSimulators == InitSimulators /\ [][NextSimulators]_vars

\* ------------------------------------------------------------------------
\* Properties of discovery
\* ------------------------------------------------------------------------
\* the first discovery pass has returned its list
FirstReturned == disc.stage \in {"publish", "second", "end"}

\* C2: for every device and every (version, build) pair that is in both the
\* device's full-image listing and its incremental-update listing, the list
\* returned by get_missing_ota_only_releases has no release of that device
\* with that pair.
C2_CrossReferenceExclusion ==
    (type = {"ota"} /\ FirstReturned) =>
        \A i \in 1..Len(catalog.ota) : \A k \in 1..Len(catalog.ota[i]) :
            LET f == catalog.ota[i][k]
            IN  (\E g \in catalog.ipsw[i] : g.version = f.version /\ g.buildid = f.buildid)
                => ~(\E j \in 1..Len(disc.first) :
                        /\ disc.first[j].device_identifier = f.identifier
                        /\ disc.first[j].os_version = f.version
                        /\ disc.first[j].build_number = f.buildid)

BuiltFrom(r, f) ==
    /\ r.device_identifier = f.identifier
    /\ r.os_version = f.version
    /\ r.build_number = f.buildid
    /\ r.url = f.url

\* C12: for every version selector, every release returned by
\* get_missing_ota_only_releases was built from a catalog entry that is not
\* a beta and has an empty prerequisitebuildid and an empty
\* prerequisiteversion, and no release is returned for an entry with a
\* non-empty prerequisitebuildid, whatever its date and release type.
C12_OnlyQualifyingEntries ==
    (type = {"ota"} /\ FirstReturned) =>
        /\ \A j \in 1..Len(disc.first) :
              \E i \in 1..Len(catalog.ota) : \E k \in 1..Len(catalog.ota[i]) :
                 LET f == catalog.ota[i][k]
                 IN  /\ BuiltFrom(disc.first[j], f)
                     /\ f.releasetype # "Beta"
                     /\ f.prerequisitebuildid = ""
                     /\ f.prerequisiteversion = ""
        /\ \A i \in 1..Len(catalog.ota) : \A k \in 1..Len(catalog.ota[i]) :
              catalog.ota[i][k].prerequisitebuildid # "" =>
                 \A j \in 1..Len(disc.first) : ~BuiltFrom(disc.first[j], catalog.ota[i][k])

\* with selector "latest", a device listed a beta and a more recent
\* release with a prerequisite next to a plain release, and the plain
\* release was returned
C12_Witness ==
    /\ type = {"ota"}
    /\ FirstReturned
    /\ os_version = "latest"
    /\ \E i \in 1..Len(catalog.ota) :
          /\ \E k \in 1..Len(catalog.ota[i]) : catalog.ota[i][k].releasetype = "Beta"
          /\ \E k \in 1..Len(catalog.ota[i]) :
                /\ catalog.ota[i][k].prerequisitebuildid # ""
                /\ catalog.ota[i][k].releasetype = "Release"
          /\ \E j \in 1..Len(disc.first) : \E k \in 1..Len(catalog.ota[i]) :
                BuiltFrom(disc.first[j], catalog.ota[i][k])

\* the members of a sequence, which has no member twice
IsListOf(seq, set) ==
    /\ { seq[k] : k \in 1..Len(seq) } = set
    /\ Len(seq) = Cardinality(set)

\* a was released no later than b
NotAfter(a, b) == ~TupleLess(parse_date(b.releasedate), parse_date(a.releasedate))

\* C13: with selector "latest", the qualifying entries of a device are in
\* ascending order of release date, the version of the last of them, the
\* most recent, is the resolved version, and the candidates of the device
\* are exactly its qualifying entries of the resolved version.
C13_LatestResolvesMostRecent ==
    (call.fn = "select" /\ os_version = "latest") =>
        LET listing == catalog.ota[1]
            q == call.qualifying_firmwares
            qualifying == { e \in { listing[k] : k \in 1..Len(listing) } :
                              /\ e.releasetype # "Beta"
                              /\ e.prerequisitebuildid = ""
                              /\ e.prerequisiteversion = "" }
        IN  /\ IsListOf(q, qualifying)
            /\ \A a, b \in 1..Len(q) : a < b => NotAfter(q[a], q[b])
            /\ qualifying = {} => call.firmwares = << >>
            /\ qualifying # {} =>
                  /\ \A e \in qualifying : NotAfter(e, q[Len(q)])
                  /\ IsListOf(call.firmwares,
                              { e \in qualifying : e.version = q[Len(q)].version })

\* the listing gave the most recent build first and an older version last;
\* both builds of the most recent version were kept and the older version
\* was not
C13_Witness ==
    /\ call.fn = "select"
    /\ os_version = "latest"
    /\ Len(catalog.ota[1]) = 3
    /\ catalog.ota[1][1].buildid = "20B82"
    /\ catalog.ota[1][3].version = "16.0"
    /\ Len(call.qualifying_firmwares) = 3
    /\ Len(call.firmwares) = 2
    /\ \A k \in 1..2 : call.firmwares[k].version = "9.9.16.1"

\* ------------------------------------------------------------------------
\* Properties of the run of full images
\* ------------------------------------------------------------------------
\* how often download_archive was called with url
DownloadCount(url) ==
    Cardinality({ i \in 1..Len(hist.downloads) : hist.downloads[i] = url })

\* the calls of download_archive whose archive a device reported for the
\* build and the architecture
DownloadsOf(build_number, architecture) ==
    { i \in 1..Len(hist.downloads) :
        \E r \in hist.reported : /\ r.url = hist.downloads[i]
                                 /\ r.ipsw.build_number = build_number
                                 /\ r.ipsw.architecture = architecture }

\* C1 as the specification states it: in a run of main_download_ipsws that
\* completes, download_archive is called exactly once for every
\* (build_number, architecture) of the discovered full images.
C1_OncePerBuildAndArchitecture ==
    (hist.kind = "ipsw" /\ pc = "done") =>
        \A r \in hist.reported :
            Cardinality(DownloadsOf(r.ipsw.build_number, r.ipsw.architecture)) = 1

\* C1, amended: download_archive is called at most once for every archive
\* URL, only for URLs a device reported, and, in a run that completes,
\* exactly once for every reported URL, however many devices reported it.
C1_OncePerUrl ==
    hist.kind = "ipsw" =>
        /\ \A i \in 1..Len(hist.downloads) :
              /\ DownloadCount(hist.downloads[i]) = 1
              /\ \E r \in hist.reported : r.url = hist.downloads[i]
        /\ pc = "done" => \A r \in hist.reported : DownloadCount(r.url) = 1

\* a completed run in which two devices reported one URL, downloaded once
C1_Witness ==
    /\ hist.kind = "ipsw"
    /\ pc = "done"
    /\ \E r1, r2 \in hist.reported : r1.device # r2.device /\ r1.url = r2.url
    /\ \A r \in hist.reported : DownloadCount(r.url) = 1

\* ------------------------------------------------------------------------
\* Properties of the run of incremental updates
\* ------------------------------------------------------------------------
\* C3: in a run of main_download_otas whose selector is not "all", once the
\* processing of a release has raised, the exception has left
\* main_download_otas: no release is processed after it and upload_to_gcs
\* is not called.
C3_SingleVersionFailurePropagates ==
    (hist.kind = "ota" /\ os_version # "all" /\ hist.failed # {}) =>
        /\ pc = "crashed"
        /\ hist.upload_calls = 0

\* the entries of the output root written for a bundle
OutputOf(bundle_id) == { e \in output : e.bundle_id = bundle_id }

\* C4: in a run of main_download_otas with selector "all", a release whose
\* processing raises is logged once and stops nothing: when the loop ends
\* every discovered release has been processed, the releases that did not
\* raise have returned from extraction with their symsort_utilities output
\* in the output root (or none, when they had no shared-cache directory),
\* and upload_to_gcs is called once after the loop when upload is on.
C4_BulkModeIsolation ==
    (hist.kind = "ota" /\ os_version = "all") =>
        /\ hist.errors_logged = Cardinality(hist.failed)
        /\ (pc = "ota_loop" /\ otas = << >>) =>
              /\ hist.entered = hist.discovered
              /\ hist.extracted = hist.discovered \ hist.failed
              /\ \A r \in hist.extracted :
                    \/ OutputOf(OtaBundleId(r)) = {}
                    \/ \A k \in 1..Len(OtherDylibPaths) :
                          Sorted(r.os_name, OtaBundleId(r), OtherDylibPaths[k]) \in output
        /\ (pc \in {"main_ipsw", "done", "crashed"} /\ hist.discovered # {}) =>
              hist.upload_calls = IF upload THEN 1 ELSE 0

\* a run with selector "all" went on after one of two releases raised, and
\* published the bundle of the other
C4_Witness ==
    /\ hist.kind = "ota"
    /\ os_version = "all"
    /\ pc = "done"
    /\ Cardinality(hist.failed) = 1
    /\ hist.errors_logged = 1
    /\ hist.upload_calls = 1
    /\ \E r \in hist.extracted : StoragePath(r.os_name, OtaBundleId(r)) \in hist.published

\* C5: the bundle directory of a release whose extraction raised after
\* part of its symsorter calls had written into the output root is not
\* copied to the bucket.
C5_PartialBundleNotPublished ==
    \A b \in hist.partial : StoragePath(os_name, b) \notin hist.published

\* the archive URLs of the discovered full images
ReportedUrls == { r.url : r \in hist.reported }

\* the URLs download_archive was called with before its latest call
EarlierDownloads == { hist.downloads[k] : k \in 1..(Len(hist.downloads) - 1) }

\* C15 as the specification states it: in a run of full images no
\* extraction is called before download_archive has been called for every
\* archive of the batch.
C15_AllDownloadsBeforeExtraction ==
    (hist.kind = "ipsw" /\ hist.started # {}) =>
        { hist.downloads[k] : k \in 1..Len(hist.downloads) } = ReportedUrls

\* C15, amended: in a run of full images download and extraction are
\* interleaved per archive: a full image is extracted only after its own
\* archive has been downloaded, and download_archive is called for the
\* next archive only after every full image of the earlier archives has
\* left its extraction.
C15_InterleavedPerArchive ==
    hist.kind = "ipsw" =>
        /\ \A i \in hist.started :
              \E r \in hist.reported :
                 r.ipsw = i /\ r.url \in { hist.downloads[k] : k \in 1..Len(hist.downloads) }
        /\ \A r \in hist.reported : r.url \in EarlierDownloads => r.ipsw \in hist.extracted

\* the second archive has been downloaded after the full image of the
\* first was extracted, and no full image of the second has been started
C15_Witness ==
    /\ hist.kind = "ipsw"
    /\ pc = "ipsw_next"
    /\ Len(hist.downloads) = 2
    /\ Cardinality(hist.extracted) = 1
    /\ hist.started = hist.extracted
    /\ ipsws # {}

\* ------------------------------------------------------------------------
\* Properties of the bundle ids
\* ------------------------------------------------------------------------
\* two releases are the same underlying release: the same device, version
\* and build for incremental updates, IPSW.__eq__ for full images
SameRelease(r1, r2) ==
    IF "device_identifier" \in DOMAIN r1
    THEN /\ r1.device_identifier = r2.device_identifier
         /\ r1.os_version = r2.os_version
         /\ r1.build_number = r2.build_number
    ELSE /\ r1.os_name = r2.os_name
         /\ r1.os_version = r2.os_version
         /\ r1.build_number = r2.build_number
         /\ r1.architecture = r2.architecture

\* the version and build the bundle id was made of are those of the
\* catalog entry of the release
AsListed(w) ==
    w.os_version = w.release.os_version /\ w.build_number = w.release.build_number

NoSideEffects ==
    /\ tempdirs = {}
    /\ output = {}
    /\ mounted = {}
    /\ hist.downloads = << >>
    /\ hist.entered = {}
    /\ hist.started = {}
    /\ hist.upload_calls = 0
    /\ hist.copies = 0
    /\ ~hist.reached_publish
    /\ store = hist.store_seen

\* C17: when the discovery of a kind returns an empty candidate set, the
\* run of that kind ends without a side effect: no temporary directory, no
\* download, no extraction, no upload.
C17_EmptyDiscoveryNoSideEffects ==
    (hist.kind # "none" /\ pc # "crashed" /\ hist.discovered = {}) => NoSideEffects

\* the run of incremental updates is over, with upload on, after the gate
\* reported the bundle of the only candidate present
C17_Witness ==
    /\ hist.kind = "ota"
    /\ pc = "done"
    /\ upload
    /\ hist.gate_true # {}
    /\ hist.gate_false = {}
    /\ hist.discovered = {}
    /\ NoSideEffects

\* C18: when a request of discovery (the OTA or IPSW listing of a device, or the
\* info query of a device) is answered with a non-success status, discovery
\* raises: the run ends with the error, no candidate is returned, and nothing is
\* downloaded, extracted or uploaded.
C18_HttpFailureAbortsDiscovery ==
    hist.http_failed > 0 =>
        /\ pc = "crashed"
        /\ hist.discovered = {}
        /\ hist.kind = "ota" => otas = << >>
        /\ hist.kind = "ipsw" => url_to_ipsws = << >>
        /\ NoSideEffects

\* C19: on the path of the restore manifest, the image that process_one_dmg
\* mounts and processes is the first one the manifest lists, and no other
C19_OnlyFirstImageMounted ==
    (ext.manifest = "legacy" /\ pc \in {"ipsw_mount", "ipsw_listdir", "caches", "ipsw_unmount"})
        => Head(ext.images) = ext.listed[1]

\* C20: when the try block of process_one_dmg raised and the detach of its
\* finally clause fails as well, the detach was attempted once and the exception
\* that leaves process_one_dmg is the one of the try block
C20_OriginalErrorPropagates ==
    (pc = "ipsw_raise" /\ ext.pending /\ ext.detach_failed) =>
        /\ hist.unmounts = 1
        /\ ext.error = "try"

\* C21: when the extractor or symsorter failed for one shared-cache file or one
\* of the other dylib paths, every other cache file of the listing and every
\* other dylib path has been handed to them by the time the exception leaves
\* the volume or the payload tree
C21_FailureScopedToItem ==
    (pc \in {"ipsw_unmount", "ota_except"} /\ ext.failed_item # "") =>
        /\ ext.files \subseteq {ext.failed_item}
        /\ \A k \in 1..Len(ext.dylib_paths) : ext.dylib_paths[k] = ext.failed_item

\* the last request of OTA discovery fails, after every earlier one succeeded
C18_Witness ==
    /\ hist.kind = "ota"
    /\ pc = "crashed"
    /\ Len(DevicesOf(os_name)) > 1
    /\ hist.http_failed = 2 * Len(DevicesOf(os_name))
    /\ NoSideEffects

\* ------------------------------------------------------------------------
\* Properties of the publish step
\* ------------------------------------------------------------------------
\* the statements of the two loops and of the extractions they call
InLoops ==
    pc \in {"ota_loop", "ota_unzip", "ota_unpack", "caches", "ota_except", "ipsw_loop",
            "ipsw_next", "ipsw_version", "ipsw_manifest", "ipsw_dmg", "ipsw_mount",
            "ipsw_listdir", "ipsw_unmount", "ipsw_raise"}

\* C14: in the run of a kind the recursive no-clobber copy is issued at
\* most once; when it has been issued every discovered release has been
\* downloaded and has left its extraction and no statement of the loops
\* follows; and it is issued exactly when the run reached the publish step
\* with upload on and an entry in the output root, so not for an empty
\* output root.
C14_UploadOnceAfterLoops ==
    /\ hist.copies <= 1
    /\ hist.copies = 1 <=>
          (hist.reached_publish /\ upload /\ hist.output_at_publish # {})
    /\ hist.reached_publish =>
          /\ ~InLoops
          /\ hist.entered = hist.discovered
          /\ hist.extracted \cup hist.failed = hist.discovered
          /\ Len(hist.downloads) >= 1

\* a run of full images downloaded two archives, extracted both and then
\* issued its one copy
C14_Witness ==
    /\ hist.kind = "ipsw"
    /\ pc = "done"
    /\ Len(hist.downloads) = 2
    /\ Cardinality(hist.extracted) = 2
    /\ hist.copies = 1
    /\ hist.published # {}

\* ------------------------------------------------------------------------
\* Properties of the extraction of a full image
\* ------------------------------------------------------------------------
\* the statements of process_one_dmg between the mount and the end of the
\* finally clause
InsideTry == pc \in {"ipsw_listdir", "caches", "ipsw_unmount"}

\* C6: an invocation of process_one_dmg that issued hdiutil attach, whether
\* the attach gave a volume or not, issues hdiutil detach exactly once
\* before it returns or raises, on every path out of its try block, and the
\* extraction directory of the archive still exists until the detach has
\* been issued.
C6_UnmountExactlyOnce ==
    hist.kind = "ipsw" =>
        /\ hist.mount_attempts <= 1
        /\ hist.unmounts <= hist.mount_attempts
        /\ (hist.mount_attempts = 1 /\ ~InsideTry) => hist.unmounts = 1
        /\ (hist.mount_attempts = 1 /\ hist.unmounts = 0) => "ipsw_extract_dir" \in tempdirs

\* process_one_dmg raised out of symsort_utilities after a successful mount
\* and a first symsorter call, the detach was issued once and succeeded,
\* and the extraction directory is still there
C6_Witness ==
    /\ pc = "ipsw_raise"
    /\ ext.raised
    /\ ext.volume_path # ""
    /\ ext.wrote > 0
    /\ ext.volume_path \notin mounted
    /\ hist.mount_attempts = 1
    /\ hist.unmounts = 1
    /\ "ipsw_extract_dir" \in tempdirs

\* the manifest has been chosen for the full image being extracted
ManifestChosen == hist.kind = "ipsw" /\ ext.manifest # "none"

\* the version of the version manifest is at least major.0
AtLeast(major) == ~TupleLess(version_parse(ext.os_version), << major >>)

\* the images the chosen manifest gave have been read
ImagesRead == pc \in {"ipsw_dmg", "ipsw_mount", "ipsw_listdir"} /\ ext.images # << >>

\* C8 as the specification states it: for a full image of a family other
\* than macos the build manifest is chosen when the version is at least
\* 16.0 and the restore manifest otherwise.
C8_NonMacosThreshold ==
    (ManifestChosen /\ release.os_name # "macos") =>
        (ext.manifest = "build" <=> AtLeast(16))

\* C8, amended: for a full image of ios the build manifest, with its one
\* system image, is chosen when the version is at least 16.0 and the
\* restore manifest otherwise; for a full image of tvos or watchos the
\* restore manifest is chosen whatever the version.
C8_OnlyIosHasThreshold ==
    (ManifestChosen /\ release.os_name # "macos") =>
        /\ release.os_name = "ios" => (ext.manifest = "build" <=> AtLeast(16))
        /\ release.os_name # "ios" => ext.manifest = "legacy"
        /\ (ext.manifest = "build" /\ ImagesRead) => Len(ext.images) = 1

\* a tvos image of version 17.1 whose restore manifest gave two images
C8_Witness ==
    /\ ManifestChosen
    /\ release.os_name = "tvos"
    /\ ext.os_version = "17.1"
    /\ ext.manifest = "legacy"
    /\ ImagesRead
    /\ Len(ext.images) = 2

\* C9: a full image of macos with version 13.0 or higher, or of ios with
\* version 16.0 or higher, takes the build manifest; a macos image of
\* version 12.9 and an ios image of version 15.9 take the restore manifest.
C9_VersionThreshold ==
    ManifestChosen =>
        /\ (release.os_name = "macos" /\ AtLeast(13)) => ext.manifest = "build"
        /\ (release.os_name = "ios" /\ AtLeast(16)) => ext.manifest = "build"
        /\ (release.os_name = "macos" /\ ext.os_version = "12.9") => ext.manifest = "legacy"
        /\ (release.os_name = "ios" /\ ext.os_version = "15.9") => ext.manifest = "legacy"

\* a macos image of version 13.0 whose build manifest gave its image
C9_Witness ==
    /\ ManifestChosen
    /\ release.os_name = "macos"
    /\ ext.os_version = "13.0"
    /\ ext.manifest = "build"
    /\ ImagesRead

\* ------------------------------------------------------------------------
\* Properties of discovery within a run
\* ------------------------------------------------------------------------
\* the bundle id discovery asked the gate about for a release
BundleIdOf(r) ==
    IF "device_identifier" \in DOMAIN r THEN OtaBundleId(r)
    ELSE IpswBundleId(r.os_version, r.build_number, r.architecture)

C11_GateThreeOutcomes ==
    call.fn = "has_symbols_in_cloud_storage" =>
        /\ call.result.condition = "found" => call.outcome = "true"
        /\ call.result.condition = "not_found" => call.outcome = "false"
        /\ call.result.condition \notin {"found", "not_found"} => call.outcome = "raise"

\* ----------------------------------------------------------------------
\* Properties of the extraction of one volume or payload tree

\* C22: symsorter has run for usr/lib and for the accessibility bundles of every
\* payload tree whose extraction returned, and of every mounted volume whose try
\* block ended without a failure of the extractor or symsorter, also when the
\* shared-cache directory was absent
C22_AuxiliaryDirectoriesAlwaysSorted ==
    /\ (hist.kind = "ota" /\ InLoops) =>
           \A r \in hist.extracted : \A k \in 1..Len(OtherDylibPaths) :
              Sorted(r.os_name, OtaBundleId(r), OtherDylibPaths[k]) \in output
    /\ (pc = "ipsw_unmount" /\ ext.volume_path # "" /\ ext.failed_item = "") =>
           \A k \in 1..Len(OtherDylibPaths) :
              Sorted(release.os_name, ext.bundle_id, OtherDylibPaths[k]) \in output

\* C23: a non-zero exit of a tool of the extraction ends the extraction of the
\* release with an error and the call is not repeated: after a failed unpack of
\* the payload, or a failed extractor or symsorter, control is in a raise path;
\* no shared-cache file of a volume is processed after a failed mount; a volume
\* is attached at most once per image
C23_ToolFailurePropagates ==
    /\ ext.unpack_failed => pc = "ota_except"
    /\ ext.failed_item # "" => pc \in {"ota_except", "ipsw_unmount", "ipsw_raise", "crashed"}
    /\ (hist.kind = "ipsw" /\ pc = "caches") => ext.volume_path # ""
    /\ hist.mount_attempts <= 1

\* C24: a release whose processing raised in a run is still reported missing
\* by the gate on the bucket as the run leaves it, also after its upload has
\* returned, so the discovery of the next run returns it again
C24_FailedReleaseStaysMissing ==
    /\ (hist.kind = "ota" /\ pc # "crashed") =>
           \A r \in hist.failed : OtaGate(store, TRUE, r) = "false"
    /\ hist.kind = "ipsw" =>
           \A r \in hist.failed : IpswGate(store, TRUE, r) = "false"

\* ----------------------------------------------------------------------
\* Properties of the run of full images, continued

\* C25: once the download or the extraction of a full image has raised, for
\* any selector, the exception has left main_download_ipsws: the archives that
\* follow are neither downloaded nor extracted, the upload is not reached and
\* the bucket is as discovery saw it, whatever was extracted before
C25_FullImageFailurePropagates ==
    (hist.kind = "ipsw" /\ hist.failed # {}) =>
        /\ pc = "crashed"
        /\ ~hist.reached_publish
        /\ hist.upload_calls = 0
        /\ store = hist.store_seen
        /\ \A k \in 2..Len(url_to_ipsws) :
              /\ \A d \in 1..Len(hist.downloads) : hist.downloads[d] # url_to_ipsws[k].key
              /\ url_to_ipsws[k].value \cap hist.started = {}

\* with selector "all", an image raised after another had been extracted
C25_Witness ==
    /\ hist.kind = "ipsw"
    /\ os_version = "all"
    /\ pc = "crashed"
    /\ hist.failed # {}
    /\ hist.extracted # {}
    /\ hist.written # {}

\* a volume may be mounted here: between the attach and the detach of one image
HoldsVolume == pc \in {"ipsw_listdir", "caches", "ipsw_unmount"}

\* at most one volume is mounted, and it is the one of the image in process
OneVolumeOfCurrentRelease ==
    /\ Cardinality(mounted) <= 1
    /\ \A v \in mounted :
          /\ v = ext.volume_path
          /\ release # NoRelease
          /\ hist.kind = "ipsw"
          /\ release \in hist.started
          /\ release \notin hist.extracted

\* C26 as stated: at most one volume is mounted, it belongs to the release in
\* process, and none is mounted outside the processing of an image, in
\* particular when the next release starts, at the upload and when the run ends
C26_NoVolumeOutsideProcessing ==
    /\ OneVolumeOfCurrentRelease
    /\ ~HoldsVolume => mounted = {}

\* C26: at most one volume is mounted and it belongs to the release in process;
\* none is mounted when the next release starts, at the upload, or when the run
\* ends normally; a volume stays mounted past its image only when its detach
\* failed, and then the run ends with that error
C26_NoVolumeUnlessDetachFailed ==
    /\ OneVolumeOfCurrentRelease
    /\ (~HoldsVolume /\ mounted # {}) =>
          /\ pc \in {"ipsw_raise", "crashed"}
          /\ ext.detach_failed
          /\ ~hist.reached_publish

\* the run ended with a volume still mounted, after an earlier release was
\* extracted and its volume detached
C26_Witness ==
    /\ pc = "crashed"
    /\ mounted # {}
    /\ ext.detach_failed
    /\ hist.extracted # {}

\* ----------------------------------------------------------------------
\* Properties of discovery, continued

\* the release get_missing_ota_only_releases builds from an entry of a listing
ReleaseOf(f) ==
    [ os_name |-> os_name, device_identifier |-> f.identifier, build_number |-> f.buildid,
      os_version |-> f.version, url |-> f.url ]

\* C27: with selector "all", an entry of the OTA listing of device i that is
\* not a beta, has no prerequisite, whose archive no other device lists and
\* that the gate reports missing is returned unless the IPSW listing of the
\* same device i has its (version, build): the listings of the other devices
\* do not remove it
C27_ExclusionByOwnDeviceOnly ==
    (type = {"ota"} /\ FirstReturned /\ os_version = "all") =>
        \A i \in 1..Len(catalog.ota) : \A k \in 1..Len(catalog.ota[i]) :
            LET f == catalog.ota[i][k]
            IN  ( /\ f.releasetype # "Beta"
                  /\ f.prerequisitebuildid = ""
                  /\ f.prerequisiteversion = ""
                  /\ \A i2 \in 1..Len(catalog.ota) : \A k2 \in 1..Len(catalog.ota[i2]) :
                        catalog.ota[i2][k2].url = f.url => i2 = i
                  /\ OtaGate(store, TRUE, ReleaseOf(f)) = "false"
                  /\ ~(\E g \in catalog.ipsw[i] : g.version = f.version /\ g.buildid = f.buildid) )
                => \E j \in 1..Len(disc.first) : BuiltFrom(disc.first[j], f)

\* ----------------------------------------------------------------------
\* Properties of the simulator import

\* the bundle id of the runtime of an invocation with the architecture of the
\* cache file that was handed to the extractor
OwnBundleId(inv) == SimulatorBundleId([inv.runtime EXCEPT !.arch = ArchOfFile(inv.filename)])

\* C28: every cache file handed to dyld-shared-cache-extractor and symsorter
\* is sorted under the bundle id whose architecture is the file's own suffix,
\* and that bundle id is not one the gate reported present in this run
C28_OwnArchitectureAndGate ==
    call.fn = "main" =>
        \A inv \in call.invoked :
            /\ inv.bundle_id = OwnBundleId(inv)
            /\ OwnBundleId(inv) \notin call.gate_true

====
